---------------------------- MODULE Spec2Model ----------------------------
(***************************************************************************)
(* A model of miniasm++ (src/miniasm++.cpp): the memory pool, the          *)
(* self-dereferencing Value, the instruction set and the fetch-execute     *)
(* loop of Program::run.                                                   *)
(*                                                                         *)
(* Representation notes.                                                   *)
(*  - An `int` is a mathematical integer; the programs explored keep every *)
(*    value far inside the 32-bit range, so no arithmetic wraps.           *)
(*  - A `size_t` that was converted from a negative `int` (an index, a     *)
(*    pool size, a jump target) is >= 2^63 in the code.  It is kept here   *)
(*    as the negative integer it came from, and every comparison made on   *)
(*    it treats a negative number as larger than any size or length.       *)
(*  - One iteration of the loop of Program::run is two steps: Fetch (the   *)
(*    assertions, `comm = _commands[current]`, `current++`) and the        *)
(*    execute step of the fetched instruction (`_timer += execute(args)`). *)
(***************************************************************************)
EXTENDS Integers, Sequences, FiniteSets, TLC

VARIABLES
    commands,   \* Program::_commands, the loaded command list
    memory,     \* Program::memory, a MemoryPool: [size, mem]
    current,    \* Program::current, the cursor
    timer,      \* Program::_timer, the elapsed cost
    output,     \* the integers printed by OUT so far, in order
    status,     \* "RUNNING", "HALTED", "ABORTED" (exit(-1) in ASSERT), "KILLED"
    error,      \* the message of the failed ASSERT, "" when none
    pc,         \* "fetch" or "exec": the position inside one loop iteration
    comm,       \* index of the command fetched last (`comm` in run), -1 at start
    resolved,   \* what Value::get does for each operand of the instruction
                \* executed last, in operand order, on the memory it ran on
    friendly,   \* the build: TRUE when compiled with FRIENDLY_MODE 1
    source,     \* the lines of test.asm that main has not read yet
    tokens      \* the token list of the line parsed last

\* what the run of a loaded program never changes
build == <<friendly, source, tokens>>

vars == <<commands, memory, current, timer, output, status, error, pc, comm,
          resolved, friendly, source, tokens>>

-----------------------------------------------------------------------------
(* Program constants *)

MaxMemorySize == 10000000

MaxReferenceRecursive == 256

Timelimit == 50000000

FRIENDLY_MODE == FALSE

MemoryIndexError == "Memory index error"

MemoryLimitExceeded == "Memory limit exceeded"

ReferencesOverflow == "References overflow"

TimeLimitExceeded == "Time limit exceeded"

InvalidPosition == "Invalid position"

InvalidValue == "Invalid value"

IntegerTooLong == "Integer too long"

UnknownInstruction == "Unknown instruction"

\* Parser::MaxIntegerLength
MaxIntegerLength == 10

-----------------------------------------------------------------------------
(* Bounds of the explored inputs *)

\* literal operands of the single-instruction programs are 0..MaxLit
MaxLit == 1

\* their dereference depths are 0..MaxDepth
MaxDepth == 2

\* pool sizes requested by the leading MEM are 0..MaxMem
MaxMem == 2

\* a cell filled by randint() holds one of -1..MaxFill
MaxFill == 0

\* up to MaxPad NOPs stand before and after a positioned instruction
MaxPad == 3

\* literal jump operands of the positioned jumps are 0..MaxJump
MaxJump == 3

\* up to MaxStale stale digits lie behind a lexeme on the heap
MaxStale == 1

\* the lines explored exhaustively have at most MaxLineLen characters
MaxLineLen == 4

\* the listings have at most MaxLines lines
MaxLines == 3

\* the listings that are loaded and then run have at most MaxRunLines lines
MaxRunLines == 2

FillVals == (-1)..MaxFill

-----------------------------------------------------------------------------
(* Value *)

\* Value::set
V(value, recur) == [value |-> value, recur |-> recur]

(* MemoryPool *)

\* a pool that starts with one zeroed cell
EmptyPool_OneCell == [size |-> 1, mem |-> [i \in 0..0 |-> 0]]

\* MemoryPool::MemoryPool()
EmptyPool == [size |-> 0, mem |-> <<>>]

\* the test of the ASSERT of MemoryPool::operator[]
InBounds(pool, pos) == 0 <= pos /\ pos < pool.size

\* resize zeroes the cells whatever the build
Resized_ZeroFilled(size, mode) ==
    {[size |-> size, mem |-> [i \in 0..(size - 1) |-> 0]]}

\* the pools MemoryPool::resize(size) can leave, for an accepted size, in a
\* build with FRIENDLY_MODE 1 (zero) or 0 (mode FALSE)
Resized(size, mode) ==
    IF mode
    THEN {[size |-> size, mem |-> [i \in 0..(size - 1) |-> 0]]}
    ELSE {[size |-> size, mem |-> f] : f \in [0..(size - 1) -> FillVals]}

\* a load outside the pool is not caught and reads 0
GetStep_Unchecked(pool, s) ==
    IF ~InBounds(pool, s.result)
    THEN [err |-> "", result |-> 0, loads |-> s.loads + 1]
    ELSE [err |-> "", result |-> pool.mem[s.result], loads |-> s.loads + 1]

\* one iteration of the loop of Value::get, `result = (*memory)[result]`, on
\* [err, result, loads]: the exit taken ("" when none), the running value and
\* the number of loads made so far
GetStep(pool, s) ==
    IF ~InBounds(pool, s.result)
    THEN [s EXCEPT !.err = MemoryIndexError]
    ELSE [err |-> "", result |-> pool.mem[s.result], loads |-> s.loads + 1]

\* the iterations lo <= i < hi of the loop of Value::get, in order: the range
\* is run as its two halves one after the other, and a failed ASSERT ends it
RECURSIVE GetLoop(_, _, _, _)
GetLoop(pool, s, lo, hi) ==
    IF ~(lo < hi)
    THEN s
    ELSE IF hi = lo + 1
    THEN GetStep(pool, s)
    ELSE LET mid == (lo + hi) \div 2
             half == GetLoop(pool, s, lo, mid)
         IN  IF half.err # "" THEN half ELSE GetLoop(pool, half, mid, hi)

\* the depth check is `_recur < MaxReferenceRecursive`
Get_RejectsAtLimit(pool, v) ==
    IF ~(v.recur < MaxReferenceRecursive)
    THEN [err |-> ReferencesOverflow, result |-> v.value, loads |-> 0]
    ELSE GetLoop(pool, [err |-> "", result |-> v.value, loads |-> 0],
                 0, v.recur)

\* Value::get: the error it exits with ("" when none), the value it returns
\* and the number of loads it made
Get(pool, v) ==
    IF ~(v.recur <= MaxReferenceRecursive)
    THEN [err |-> ReferencesOverflow, result |-> v.value, loads |-> 0]
    ELSE GetLoop(pool, [err |-> "", result |-> v.value, loads |-> 0],
                 0, v.recur)

-----------------------------------------------------------------------------
(* Commands: an instruction with its argument record *)

Nop == [op |-> "NOP"]

TaggedNop(index) == [op |-> "TNOP", index |-> index]

Mem(value) == [op |-> "MEM", value |-> value]

Out(value) == [op |-> "OUT", value |-> value]

Set(value, index) == [op |-> "SET", value |-> value, index |-> index]

Add(value1, value2, index) ==
    [op |-> "ADD", value1 |-> value1, value2 |-> value2, index |-> index]

Div(value1, value2, index) ==
    [op |-> "DIV", value1 |-> value1, value2 |-> value2, index |-> index]

Mod(value1, value2, index) ==
    [op |-> "MOD", value1 |-> value1, value2 |-> value2, index |-> index]

Jmp(value) == [op |-> "JMP", value |-> value]

Jmov(value) == [op |-> "JMOV", value |-> value]

Jif(value1, value2) == [op |-> "JIF", value1 |-> value1, value2 |-> value2]

Jifm(value1, value2) == [op |-> "JIFM", value1 |-> value1, value2 |-> value2]

Rol(value1, value2, index) ==
    [op |-> "ROL", value1 |-> value1, value2 |-> value2, index |-> index]

Ror(value1, value2, index) ==
    [op |-> "ROR", value1 |-> value1, value2 |-> value2, index |-> index]

-----------------------------------------------------------------------------
(* The programs explored *)

Values == [value : 0..MaxLit, recur : 0..MaxDepth]

DeepValues ==
    [value : 0..MaxLit,
     recur : {MaxReferenceRecursive, MaxReferenceRecursive + 1}]

\* commands whose operands are at most MaxDepth references deep
ShallowCommands ==
    {Nop}
    \cup {TaggedNop(i) : i \in Values}
    \cup {Mem(v) : v \in Values}
    \cup {Out(v) : v \in Values}
    \cup {Set(v, i) : v \in Values, i \in Values}
    \cup {Add(v1, v2, i) : v1 \in Values, v2 \in Values, i \in Values}
    \cup {Div(v1, v2, i) : v1 \in Values, v2 \in Values, i \in Values}
    \cup {Mod(v1, v2, i) : v1 \in Values, v2 \in Values, i \in Values}
    \cup {Jmp(v) : v \in Values}
    \cup {Jmov(v) : v \in Values}
    \cup {Jif(v1, v2) : v1 \in Values, v2 \in Values}
    \cup {Jifm(v1, v2) : v1 \in Values, v2 \in Values}
    \cup {Rol(v1, v2, i) : v1 \in Values, v2 \in Values, i \in Values}
    \cup {Ror(v1, v2, i) : v1 \in Values, v2 \in Values, i \in Values}

\* commands with an operand at the reference limit or one past it
DeepCommands ==
    {Out(v) : v \in DeepValues}
    \cup {Set(v, V(0, 0)) : v \in DeepValues}
    \cup {Set(V(0, 0), i) : i \in DeepValues}

ProbeCommands == ShallowCommands \cup DeepCommands

\* no MEM at all, or one MEM n in front
Preludes == {<<>>} \cup {<<Mem(V(n, 0))>> : n \in 0..MaxMem}

\* one instruction, on every pool a leading MEM can leave, then an OUT
ProbePrograms ==
    {p \o <<c>> \o <<Out(V(0, 0))>> : p \in Preludes, c \in ProbeCommands}

Nops(n) == [k \in 1..n |-> Nop]

PositionedCommands ==
    LET targets == [value : 0..MaxJump, recur : {0}] \cup {V(0, 1)}
        conditions == {V(0, 0), V(1, 0), V(0, 1)}
    IN  {Jmp(v) : v \in targets}
        \cup {Jmov(v) : v \in targets}
        \cup {Jif(c, v) : c \in conditions, v \in targets}
        \cup {Jifm(c, v) : c \in conditions, v \in targets}
        \cup {TaggedNop(V(0, 0))}

\* one jump or tagged NOP at every position among NOPs, after MEM 1
PositionedPrograms ==
    {<<Mem(V(1, 0))>> \o Nops(i) \o <<c>> \o Nops(j) :
        i \in 0..MaxPad, j \in 0..MaxPad, c \in PositionedCommands}

\* MEM 3 / SET 1 0 / SET 2 1 / ADD *0 *1 2 / OUT 2
ProgAddOut ==
    <<Mem(V(3, 0)), Set(V(1, 0), V(0, 0)), Set(V(2, 0), V(1, 0)),
      Add(V(0, 1), V(1, 1), V(2, 0)), Out(V(2, 0))>>

\* SET 5 0 / OUT 0
ProgSetOut == <<Set(V(5, 0), V(0, 0)), Out(V(0, 0))>>

\* JMP 0
ProgJmp0 == <<Jmp(V(0, 0))>>

\* MEM 1 / NOP 0 / NOP / JMP *0 : a tagged NOP marks a position, JMP returns
ProgTagLoop == <<Mem(V(1, 0)), TaggedNop(V(0, 0)), Nop, Jmp(V(0, 1))>>

\* MEM 10 / OUT *10: a read of index 10 right after MEM 10
ProgMemRead10 == <<Mem(V(10, 0)), Out(V(10, 1))>>

\* MEM 10 / OUT *9: a read of the last cell right after MEM 10
ProgMemRead9 == <<Mem(V(10, 0)), Out(V(9, 1))>>

ScenarioPrograms ==
    {ProgAddOut, ProgSetOut, ProgJmp0, ProgTagLoop, ProgMemRead10,
     ProgMemRead9,
     \* MEM 10000001: one cell more than a pool may have
     <<Mem(V(MaxMemorySize + 1, 0))>>,
     \* MEM 1 / ROR 1 1 0 / OUT *0: the low bit leaves at the right end
     <<Mem(V(1, 0)), Ror(V(1, 0), V(1, 0), V(0, 0)), Out(V(0, 1))>>,
     \* MEM 1 / ROL 3 31 0 / OUT *0: the high bit is set on the way
     <<Mem(V(1, 0)), Rol(V(3, 0), V(31, 0), V(0, 0)), Out(V(0, 1))>>,
     \* MEM 1 / ROL 5 3 0 / ROR *0 3 0 / OUT *0: there and back
     <<Mem(V(1, 0)), Rol(V(5, 0), V(3, 0), V(0, 0)), Ror(V(0, 1), V(3, 0),
       V(0, 0)), Out(V(0, 1))>>,
     \* MEM 1 / ROR 5 3 0 / ROL *0 3 0 / OUT *0: back and there
     <<Mem(V(1, 0)), Ror(V(5, 0), V(3, 0), V(0, 0)), Rol(V(0, 1), V(3, 0),
       V(0, 0)), Out(V(0, 1))>>,
     \* OUT 1 / OUT *0 / OUT 1: the second OUT reads a cell of an empty pool
     <<Out(V(1, 0)), Out(V(0, 1)), Out(V(1, 0))>>,
     \* MEM 1 / ADD *0 *0 0 / JMOV *0: the offset doubles on every round
     <<Mem(V(1, 0)), Add(V(0, 1), V(0, 1), V(0, 0)), Jmov(V(0, 1))>>,
     \* MEM 1 / ADD *0 *0 0 / JIFM *0 *0: the same with a condition
     <<Mem(V(1, 0)), Add(V(0, 1), V(0, 1), V(0, 0)),
       Jifm(V(0, 1), V(0, 1))>>}

Programs == ProbePrograms \cup PositionedPrograms \cup ScenarioPrograms

\* the programs without an operand from DeepValues and without a pool of
\* more than MaxMem cells
ShallowPrograms ==
    {p \in Programs : \A k \in 1..Len(p) : p[k] \notin DeepCommands}
        \ {ProgMemRead10, ProgMemRead9}

-----------------------------------------------------------------------------
(* Program *)

\* Program::Program(), after main has appended the parsed commands
Init ==
    /\ commands \in Programs
    /\ memory = EmptyPool
    /\ current = 0
    /\ timer = 0
    /\ output = <<>>
    /\ status = "RUNNING"
    /\ error = ""
    /\ pc = "fetch"
    /\ comm = -1
    /\ resolved = <<>>
    /\ friendly \in {FRIENDLY_MODE, ~FRIENDLY_MODE}
    /\ source = <<>>
    /\ tokens = <<>>

\* the cursor compared as a signed number: a negative cursor is not past the
\* end
exited_Signed == current >= Len(commands)

\* Program::exited
exited == current < 0 \/ current >= Len(commands)

\* the command `comm` refers to
Command == commands[comm + 1]

\* the message is printed and the run goes on with the next command
Abort_Continues(message) ==
    /\ error' = message
    /\ pc' = "fetch"
    /\ UNCHANGED <<build, commands, memory, current, timer, output, status,
                   comm>>

\* ASSERT failed: the message is printed and the process exits
Abort(message) ==
    /\ status' = "ABORTED"
    /\ error' = message
    /\ UNCHANGED <<build, commands, memory, current, timer, output, pc,
                   comm>>

\* the head of one iteration of the loop of Program::run
Fetch ==
    /\ status = "RUNNING"
    /\ pc = "fetch"
    /\ ~exited
    /\ IF ~(timer <= Timelimit)
       THEN Abort(TimeLimitExceeded) /\ UNCHANGED resolved
       ELSE IF ~(0 <= current /\ current < Len(commands))
       THEN Abort(InvalidPosition) /\ UNCHANGED resolved
       ELSE /\ comm' = current
            /\ current' = current + 1
            /\ pc' = "exec"
            /\ UNCHANGED <<build, commands, memory, timer, output, status,
                           error, resolved>>

\* the loop of Program::run ends and main returns
Halt ==
    /\ status = "RUNNING"
    /\ pc = "fetch"
    /\ exited
    /\ status' = "HALTED"
    /\ UNCHANGED <<build, commands, memory, current, timer, output, error,
                   pc, comm, resolved>>

\* an instruction is being executed
Executing(op) == status = "RUNNING" /\ pc = "exec" /\ Command.op = op

\* `_timer += execute(args)` for an execute that returned `cost`
Return(cost) ==
    /\ timer' = timer + cost
    /\ pc' = "fetch"

\* the errors the evaluation of the operands `gs` can exit with first
OperandErrors(gs) == {gs[k].err : k \in DOMAIN gs} \ {""}

\* NopInstruction::execute
ExecNop ==
    /\ Executing("NOP")
    /\ resolved' = <<>>
    /\ Return(0)
    /\ UNCHANGED <<build, commands, memory, current, output, status, error,
                   comm>>

\* OUT prints the cell its operand names instead of the operand's value
ExecOut_Deref ==
    /\ Executing("OUT")
    /\ LET g == Get(memory, [Command.value EXCEPT !.recur = @ + 1]) IN
         /\ resolved' = <<g>>
         /\ IF g.err # ""
            THEN Abort(g.err)
            ELSE /\ output' = Append(output, g.result)
                 /\ Return(0)
                 /\ UNCHANGED <<build, commands, memory, current, status, error,
                                comm>>

\* OutInstruction::execute
ExecOut ==
    /\ Executing("OUT")
    /\ LET g == Get(memory, Command.value) IN
         /\ resolved' = <<g>>
         /\ IF g.err # ""
            THEN Abort(g.err)
            ELSE /\ output' = Append(output, g.result)
                 /\ Return(0)
                 /\ UNCHANGED <<build, commands, memory, current, status, error,
                                comm>>

\* the write goes to every cell of the pool
Store_EveryCell(gs, gi, r) ==
    LET errs == OperandErrors(gs \o <<gi>>) \cup
                (IF gi.err = "" /\ ~InBounds(memory, gi.result)
                 THEN {MemoryIndexError} ELSE {})
    IN  /\ resolved' = gs \o <<gi>>
        /\ IF errs = {}
           THEN /\ memory' = [memory EXCEPT
                                 !.mem = [i \in DOMAIN memory.mem |-> r]]
                /\ Return(0)
                /\ UNCHANGED <<build, commands, current, output, status,
                               error, comm>>
           ELSE \E e \in errs : Abort(e)

\* `env->memory[GET(index)] = r` after the source operands `gs` were resolved:
\* the check of MemoryPool::operator[] on the destination, then the write.
\* The order in which the operands of one expression are evaluated is left to
\* the compiler, so any failing evaluation can be the one that exits.
Store(gs, gi, r) ==
    LET errs == OperandErrors(gs \o <<gi>>) \cup
                (IF gi.err = "" /\ ~InBounds(memory, gi.result)
                 THEN {MemoryIndexError} ELSE {})
    IN  /\ resolved' = gs \o <<gi>>
        /\ IF errs = {}
           THEN /\ memory' = [memory EXCEPT !.mem[gi.result] = r]
                /\ Return(0)
                /\ UNCHANGED <<build, commands, current, output, status,
                               error, comm>>
           ELSE \E e \in errs : Abort(e)

\* the tagged NOP stores its own index
TaggedNopValue_Own(cur) == cur - 1

\* the int stored by `env->memory[...] = env->current`
TaggedNopValue(cur) == cur

\* the tagged NOP has no effect, like the plain one
ExecTaggedNop_NoEffect ==
    /\ Executing("TNOP")
    /\ resolved' = <<>>
    /\ Return(0)
    /\ UNCHANGED <<build, commands, memory, current, output, status, error,
                   comm>>

\* TaggedNopInstruction::execute
ExecTaggedNop ==
    /\ Executing("TNOP")
    /\ Store(<<>>, Get(memory, Command.index), TaggedNopValue(current))

\* resize takes its size as an int: a negative size passes the limit check
ExecMem_SignedSize ==
    /\ Executing("MEM")
    /\ LET g == Get(memory, Command.value) IN
         /\ resolved' = <<g>>
         /\ IF g.err # ""
            THEN Abort(g.err)
            ELSE IF ~(g.result <= MaxMemorySize)
            THEN Abort(MemoryLimitExceeded)
            ELSE /\ memory' \in Resized(g.result, friendly)
                 /\ Return(0)
                 /\ UNCHANGED <<build, commands, current, output, status,
                                error, comm>>

\* MemInstruction::execute, with MemoryPool::resize
ExecMem ==
    /\ Executing("MEM")
    /\ LET g == Get(memory, Command.value) IN
         /\ resolved' = <<g>>
         /\ IF g.err # ""
            THEN Abort(g.err)
            ELSE IF ~(0 <= g.result /\ g.result <= MaxMemorySize)
            THEN Abort(MemoryLimitExceeded)
            ELSE /\ memory' \in Resized(g.result, friendly)
                 /\ Return(0)
                 /\ UNCHANGED <<build, commands, current, output, status, error,
                                comm>>

\* SetInstruction::execute
ExecSet ==
    /\ Executing("SET")
    /\ LET g == Get(memory, Command.value) IN
         Store(<<g>>, Get(memory, Command.index), g.result)

\* ADD as `memory[i] = value1; memory[i] += value2`: the second operand is
\* resolved after the destination was written
ExecAdd_Accumulating ==
    /\ Executing("ADD")
    /\ LET g1 == Get(memory, Command.value1)
           gi == Get(memory, Command.index)
           written == IF g1.err = "" /\ gi.err = "" /\ InBounds(memory, gi.result)
                      THEN [memory EXCEPT !.mem[gi.result] = g1.result]
                      ELSE memory
           g2 == Get(written, Command.value2)
       IN  Store(<<g1, g2>>, gi, g1.result + g2.result)

\* AddInstruction::execute
ExecAdd ==
    /\ Executing("ADD")
    /\ LET g1 == Get(memory, Command.value1)
           g2 == Get(memory, Command.value2)
       IN  Store(<<g1, g2>>, Get(memory, Command.index),
                 g1.result + g2.result)

Abs(a) == IF a < 0 THEN -a ELSE a

\* `a / b` on int, b # 0: the quotient truncated towards zero
CDiv(a, b) ==
    IF (a < 0) = (b < 0)
    THEN Abs(a) \div Abs(b)
    ELSE -(Abs(a) \div Abs(b))

\* `a % b` on int, b # 0: the remainder of the truncated division
CMod(a, b) == a - b * CDiv(a, b)

\* the process is ended by a signal (SIGFPE): nothing is printed
Killed ==
    /\ status' = "KILLED"
    /\ UNCHANGED <<build, commands, memory, current, timer, output, error,
                   pc, comm>>

\* `a / 0` and `a % 0` are undefined: the build either traps (the process is
\* killed) or goes on with some int as the result
UndefinedResult(gs, gi) ==
    \/ /\ Killed
       /\ resolved' = gs \o <<gi>>
    \/ \E r \in FillVals : Store(gs, gi, r)

\* DivInstruction::execute
ExecDiv ==
    /\ Executing("DIV")
    /\ LET g1 == Get(memory, Command.value1)
           g2 == Get(memory, Command.value2)
           gi == Get(memory, Command.index)
       IN  IF g1.err = "" /\ g2.err = "" /\ g2.result = 0
           THEN UndefinedResult(<<g1, g2>>, gi)
           ELSE Store(<<g1, g2>>, gi, CDiv(g1.result, g2.result))

\* ModInstruction::execute
ExecMod ==
    /\ Executing("MOD")
    /\ LET g1 == Get(memory, Command.value1)
           g2 == Get(memory, Command.value2)
           gi == Get(memory, Command.index)
       IN  IF g1.err = "" /\ g2.err = "" /\ g2.result = 0
           THEN UndefinedResult(<<g1, g2>>, gi)
           ELSE Store(<<g1, g2>>, gi, CMod(g1.result, g2.result))

(* int arithmetic on bits, on the two's complement pattern of 32 bits *)

\* sizeof(int) * 8
IntBits == 32

INT_HIGHBIT == IntBits - 1

RECURSIVE Pow2(_)
Pow2(i) == IF i = 0 THEN 1 ELSE 2 * Pow2(i - 1)

\* `a | b`
RECURSIVE BitOr(_, _)
BitOr(a, b) ==
    IF a = 0 THEN b
    ELSE IF b = 0 THEN a
    ELSE IF a = -1 \/ b = -1 THEN -1
    ELSE 2 * BitOr(a \div 2, b \div 2)
         + (IF a % 2 = 1 \/ b % 2 = 1 THEN 1 ELSE 0)

\* `a & b`
RECURSIVE BitAnd(_, _)
BitAnd(a, b) ==
    IF a = 0 \/ b = 0 THEN 0
    ELSE IF a = -1 THEN b
    ELSE IF b = -1 THEN a
    ELSE 2 * BitAnd(a \div 2, b \div 2) + (a % 2) * (b % 2)

\* `v << n`, 0 <= n < 32: the low 32 - n bits move up by n, the highest of
\* them becomes the sign, the bits above are lost
ShiftLeft(v, n) ==
    IF n = 0
    THEN v
    ELSE LET low == v % Pow2(INT_HIGHBIT - n)
             high == (v \div Pow2(INT_HIGHBIT - n)) % 2
         IN  IF high = 1
             THEN (low - Pow2(INT_HIGHBIT - n)) * Pow2(n - 1) * 2
             ELSE low * Pow2(n - 1) * 2

\* `v >> n` on int, 0 <= n < 32: the sign is copied in from the left
ShiftRight(v, n) ==
    IF n = INT_HIGHBIT
    THEN (IF v < 0 THEN -1 ELSE 0)
    ELSE v \div Pow2(n)

\* the one element of a set of one element
The(S) == CHOOSE x \in S : TRUE

\* the loop of RolInstruction::execute from iteration i on; r is the int
\* that the assignment of the iteration leaves in v
RECURSIVE RolLoop(_, _, _)
RolLoop(v, i, t) ==
    IF ~(i < t)
    THEN v
    ELSE The({RolLoop(r, i + 1, t) :
                r \in {BitOr(ShiftLeft(v, 1), ShiftRight(v, INT_HIGHBIT))}})

\* the loop of RorInstruction::execute from iteration i on
RECURSIVE RorLoop(_, _, _)
RorLoop(v, i, t) ==
    IF ~(i < t)
    THEN v
    ELSE The({RorLoop(r, i + 1, t) :
                r \in {BitOr(ShiftRight(v, 1),
                             BitAnd(v, ShiftLeft(1, INT_HIGHBIT)))}})

\* `int v = GET(value1); int t = GET(value2) & INT_HIGHBIT;`, the loop, and
\* `env->memory[GET(index)] = v`, one statement after the other
Rotate(g1, g2, gi, v) ==
    IF g1.err # ""
    THEN resolved' = <<g1, g2, gi>> /\ Abort(g1.err)
    ELSE IF g2.err # ""
    THEN resolved' = <<g1, g2, gi>> /\ Abort(g2.err)
    ELSE Store(<<g1, g2>>, gi, v)

\* RolInstruction::execute
ExecRol ==
    /\ Executing("ROL")
    /\ LET g1 == Get(memory, Command.value1)
           g2 == Get(memory, Command.value2)
       IN  Rotate(g1, g2, Get(memory, Command.index),
                  RolLoop(g1.result, 0, BitAnd(g2.result, INT_HIGHBIT)))

\* RorInstruction::execute
ExecRor ==
    /\ Executing("ROR")
    /\ LET g1 == Get(memory, Command.value1)
           g2 == Get(memory, Command.value2)
       IN  Rotate(g1, g2, Get(memory, Command.index),
                  RorLoop(g1.result, 0, BitAnd(g2.result, INT_HIGHBIT)))

\* `env->current = target` or `env->current += offset`, then return 0
Jump(g, target) ==
    /\ resolved' = <<g>>
    /\ IF g.err # ""
       THEN Abort(g.err)
       ELSE /\ current' = target
            /\ Return(0)
            /\ UNCHANGED <<build, commands, memory, output, status, error, comm>>

\* `if (GET(value1)) env->current = ...GET(value2)...; return 0;`: value2
\* is resolved only when the condition is not 0. `resolved` keeps the
\* condition, the one operand every execution resolves.
JumpIf(g1, g2, base) ==
    /\ resolved' = <<g1>>
    /\ IF g1.err # ""
       THEN Abort(g1.err)
       ELSE IF g1.result = 0
       THEN /\ Return(0)
            /\ UNCHANGED <<build, commands, memory, current, output, status,
                           error, comm>>
       ELSE IF g2.err # ""
       THEN Abort(g2.err)
       ELSE /\ current' = base + g2.result
            /\ Return(0)
            /\ UNCHANGED <<build, commands, memory, output, status, error,
                           comm>>

\* JIF that jumps whatever its condition
ExecJif_Unconditional ==
    /\ Executing("JIF")
    /\ LET g == Get(memory, Command.value2) IN Jump(g, g.result)

\* JifInstruction::execute
ExecJif ==
    /\ Executing("JIF")
    /\ JumpIf(Get(memory, Command.value1), Get(memory, Command.value2), 0)

\* JifmInstruction::execute
ExecJifm ==
    /\ Executing("JIFM")
    /\ JumpIf(Get(memory, Command.value1), Get(memory, Command.value2),
              current)

\* the cursor is advanced once more after the jump
ExecJmp_ThenAdvance ==
    /\ Executing("JMP")
    /\ LET g == Get(memory, Command.value) IN Jump(g, g.result + 1)

\* JmpInstruction::execute
ExecJmp ==
    /\ Executing("JMP")
    /\ LET g == Get(memory, Command.value) IN Jump(g, g.result)

\* the offset is added to the index of the JMOV itself
ExecJmov_FromOwnIndex ==
    /\ Executing("JMOV")
    /\ LET g == Get(memory, Command.value) IN Jump(g, comm + g.result)

\* JmovInstruction::execute
ExecJmov ==
    /\ Executing("JMOV")
    /\ LET g == Get(memory, Command.value) IN Jump(g, current + g.result)

\* one step of Program::run
Next ==
    \/ Fetch
    \/ Halt
    \/ ExecNop
    \/ ExecTaggedNop
    \/ ExecMem
    \/ ExecOut
    \/ ExecSet
    \/ ExecAdd
    \/ ExecDiv
    \/ ExecMod
    \/ ExecJmp
    \/ ExecJmov
    \/ ExecJif
    \/ ExecJifm
    \/ ExecRol
    \/ ExecRor

Spec == Init /\ [][Next]_vars

\* the loop of Program::run never pauses: a step that can be taken is taken
FairInit == Init /\ commands \in ShallowPrograms

FairSpec == FairInit /\ [][Next]_vars /\ WF_vars(Next)

-----------------------------------------------------------------------------
(* Token, Tokenizer and Parser.  A line is the buffer fgets filled: a      *)
(* sequence of characters (one-character strings), its line feed included *)
(* when the line has one; a lexeme is the sequence of the characters of    *)
(* one token.  Positions count from 1 here and from 0 in the code.         *)

\* isalpha
Alphas ==
    {"A", "B", "C", "D", "E", "F", "G", "H", "I", "J", "K", "L", "M", "N",
     "O", "P", "Q", "R", "S", "T", "U", "V", "W", "X", "Y", "Z", "r", "x"}

\* isdigit
Digits == {"0", "1", "2", "3", "4", "5", "6", "7", "8", "9"}

\* the value of a digit character
DigitValue ==
    [c \in Digits |->
        CASE c = "0" -> 0 [] c = "1" -> 1 [] c = "2" -> 2 [] c = "3" -> 3
          [] c = "4" -> 4 [] c = "5" -> 5 [] c = "6" -> 6 [] c = "7" -> 7
          [] c = "8" -> 8 [] c = "9" -> 9]

\* the TokenType Tokenizer::tokenize gives a character
TokenType(c) ==
    IF c \in Alphas THEN "ALPHAS"
    ELSE IF c \in Digits THEN "DIGITS"
    ELSE IF c = "*" \/ c = "#" THEN "SIGNS"
    ELSE "UNKNOWN"

\* Token(buffer, beg, end): the characters beg <= pos < end
Token(buffer, beg, end) == SubSeq(buffer, beg, end - 1)

\* the loop of Tokenizer::tokenize from position pos on; it ends at the
\* terminating NUL of the buffer, which is position Len(buffer) + 1
RECURSIVE tokenizeFrom(_, _, _, _, _)
tokenizeFrom(buffer, pos, mode, lastpos, toks) ==
    IF pos > Len(buffer)
    THEN toks
    ELSE LET type == TokenType(buffer[pos]) IN
         IF type = "UNKNOWN"
         THEN IF mode # "UNKNOWN"
              THEN tokenizeFrom(buffer, pos + 1, "UNKNOWN", lastpos,
                                Append(toks, Token(buffer, lastpos, pos)))
              ELSE tokenizeFrom(buffer, pos + 1, mode, lastpos, toks)
         ELSE IF mode = "UNKNOWN"
         THEN tokenizeFrom(buffer, pos + 1, type, pos, toks)
         ELSE IF mode # type
         THEN \* `pos--`: the character is looked at again
              tokenizeFrom(buffer, pos, "UNKNOWN", lastpos,
                           Append(toks, Token(buffer, lastpos, pos)))
         ELSE tokenizeFrom(buffer, pos + 1, mode, lastpos, toks)

\* Tokenizer::tokenize
tokenize(buffer) == tokenizeFrom(buffer, 1, "UNKNOWN", 1, <<>>)

\* Token::is_int
is_int(t) == Len(t) > 0 /\ t[1] \in Digits

\* is_comment taking any token that starts with a sign for a comment
is_comment_AnySign(t) == Len(t) > 0 /\ t[1] \in {"#", "*"}

\* Token::is_comment
is_comment(t) == Len(t) > 0 /\ t[1] = "#"

\* Token::equal_to
equal_to(t, str) == t = str

\* half of the 32 bits of an int
Half == 65536

\* the low 32 bits of the long that strtol reads off a run of digits, as two
\* halves of 16 bits
RECURSIVE Decimal(_)
Decimal(ds) ==
    IF ds = <<>>
    THEN [hi |-> 0, lo |-> 0]
    ELSE LET rest == Decimal(SubSeq(ds, 1, Len(ds) - 1))
             low == 10 * rest.lo + DigitValue[ds[Len(ds)]]
         IN  [hi |-> (10 * rest.hi + low \div Half) % Half,
              lo |-> low % Half]

\* the conversion of the long to int: the low 32 bits, bit 31 the sign
ToInt(n) ==
    IF n.hi >= Half \div 2
    THEN (n.hi - Half) * Half + n.lo
    ELSE n.hi * Half + n.lo

\* what atoi can find on the heap right behind a lexeme, which Token stores
\* without a terminating NUL: a byte that is no digit, or up to MaxStale
\* bytes that are digits, here 9s
Stale == UNION {[1..n -> {"9"}] : n \in 0..MaxStale}

\* Token::as_int, `atoi(lexeme)`: atoi reads on through the digits that
\* follow the lexeme in memory
as_int(t, stale) == ToInt(Decimal(t \o stale))

\* the loop of Parser::read_value from token beg on, recur accumulated so far
RECURSIVE readValueFrom(_, _, _, _)
readValueFrom(toks, beg, recur, stale) ==
    IF beg > Len(toks)
    THEN [err |-> InvalidValue, value |-> 0, recur |-> recur, next |-> beg]
    ELSE IF is_int(toks[beg])
    THEN IF ~(Len(toks[beg]) <= MaxIntegerLength)
         THEN [err |-> IntegerTooLong, value |-> 0, recur |-> recur,
               next |-> beg]
         ELSE [err |-> "", value |-> as_int(toks[beg], stale),
               recur |-> recur, next |-> beg + 1]
    ELSE readValueFrom(toks, beg + 1, recur + Len(toks[beg]), stale)

\* read_value without its `ASSERT(beg != end, "Invalid value")`: the Value
\* is set all the same
read_value_Unchecked(toks, beg, stale) ==
    LET r == readValueFrom(toks, beg, 0, stale)
    IN  IF r.err = InvalidValue THEN [r EXCEPT !.err = ""] ELSE r

\* Parser::read_value(beg, end, target): the error it exits with ("" when
\* none), what target.set receives, and beg afterwards
read_value(toks, beg, stale) == readValueFrom(toks, beg, 0, stale)

\* the calls of read_value that parse_v, parse_i, parse_vi, parse_vv and
\* parse_vvi make one after the other, n of them, from token beg on: the
\* Values read, and the error that ended the reading ("" when none)
RECURSIVE read_values(_, _, _, _, _)
read_values(toks, beg, n, stales, acc) ==
    IF Len(acc) = n
    THEN [err |-> "", values |-> acc]
    ELSE LET r == read_value(toks, beg, stales[Len(acc) + 1]) IN
         IF r.err # ""
         THEN [err |-> r.err, values |-> acc]
         ELSE read_values(toks, r.next, n, stales,
                          Append(acc, V(r.value, r.recur)))

\* the opcodes Parser::parse compares the first token with, in its order,
\* NOP aside, each with the parse_* template it calls
Opcodes ==
    <<
        [lexeme |-> <<"M", "E", "M">>,
         op |-> "MEM", shape |-> "v"],
        [lexeme |-> <<"I", "N">>,
         op |-> "IN", shape |-> "i"],
        [lexeme |-> <<"O", "U", "T">>,
         op |-> "OUT", shape |-> "v"],
        [lexeme |-> <<"S", "E", "T">>,
         op |-> "SET", shape |-> "vi"],
        [lexeme |-> <<"A", "D", "D">>,
         op |-> "ADD", shape |-> "vvi"],
        [lexeme |-> <<"S", "U", "B">>,
         op |-> "SUB", shape |-> "vvi"],
        [lexeme |-> <<"M", "U", "L">>,
         op |-> "MUL", shape |-> "vvi"],
        [lexeme |-> <<"D", "I", "V">>,
         op |-> "DIV", shape |-> "vvi"],
        [lexeme |-> <<"M", "O", "D">>,
         op |-> "MOD", shape |-> "vvi"],
        [lexeme |-> <<"I", "N", "C">>,
         op |-> "INC", shape |-> "vi"],
        [lexeme |-> <<"D", "E", "C">>,
         op |-> "DEC", shape |-> "vi"],
        [lexeme |-> <<"N", "E", "C">>,
         op |-> "NEC", shape |-> "vi"],
        [lexeme |-> <<"A", "N", "D">>,
         op |-> "AND", shape |-> "vvi"],
        [lexeme |-> <<"O", "R">>,
         op |-> "OR", shape |-> "vvi"],
        [lexeme |-> <<"X", "O", "R">>,
         op |-> "XOR", shape |-> "vvi"],
        [lexeme |-> <<"F", "L", "I", "P">>,
         op |-> "FLIP", shape |-> "vi"],
        [lexeme |-> <<"N", "O", "T">>,
         op |-> "NOT", shape |-> "vi"],
        [lexeme |-> <<"S", "H", "L">>,
         op |-> "SHL", shape |-> "vvi"],
        [lexeme |-> <<"S", "H", "R">>,
         op |-> "SHR", shape |-> "vvi"],
        [lexeme |-> <<"R", "O", "L">>,
         op |-> "ROL", shape |-> "vvi"],
        [lexeme |-> <<"R", "O", "R">>,
         op |-> "ROR", shape |-> "vvi"],
        [lexeme |-> <<"E", "Q", "U">>,
         op |-> "EQU", shape |-> "vvi"],
        [lexeme |-> <<"G", "T", "E", "R">>,
         op |-> "GTER", shape |-> "vvi"],
        [lexeme |-> <<"L", "E", "S", "S">>,
         op |-> "LESS", shape |-> "vvi"],
        [lexeme |-> <<"G", "E", "Q">>,
         op |-> "GEQ", shape |-> "vvi"],
        [lexeme |-> <<"L", "E", "Q">>,
         op |-> "LEQ", shape |-> "vvi"],
        [lexeme |-> <<"J", "M", "P">>,
         op |-> "JMP", shape |-> "v"],
        [lexeme |-> <<"J", "M", "O", "V">>,
         op |-> "JMOV", shape |-> "v"],
        [lexeme |-> <<"J", "I", "F">>,
         op |-> "JIF", shape |-> "vv"],
        [lexeme |-> <<"J", "I", "F", "M">>,
         op |-> "JIFM", shape |-> "vv"]
    >>

\* the number of read_value calls of each parse_* template
Arity == [v |-> 1, i |-> 1, vi |-> 2, vv |-> 2, vvi |-> 3]

\* the ArgsType of each parse_* template, filled from the Values read
Args(op, shape, vs) ==
    CASE shape = "v" -> [op |-> op, value |-> vs[1]]
      [] shape = "i" -> [op |-> op, index |-> vs[1]]
      [] shape = "vi" -> [op |-> op, value |-> vs[1], index |-> vs[2]]
      [] shape = "vv" -> [op |-> op, value1 |-> vs[1], value2 |-> vs[2]]
      [] shape = "vvi" ->
            [op |-> op, value1 |-> vs[1], value2 |-> vs[2], index |-> vs[3]]

\* what one line comes to: no command, a fatal error, or a command
NoCommand == [kind |-> "none"]

Fatal(message) == [kind |-> "error", error |-> message]

Parsed(command) == [kind |-> "command", command |-> command]

\* Parser::parse_v, parse_i, parse_vi, parse_vv, parse_vvi
parse_shape(toks, entry, stales) ==
    LET r == read_values(toks, 2, Arity[entry.shape], stales, <<>>) IN
    IF r.err # ""
    THEN Fatal(r.err)
    ELSE Parsed(Args(entry.op, entry.shape, r.values))

\* parse_nop looking for the integer literal anywhere after the opcode
parse_nop_AnyInteger(toks, stales) ==
    IF \E p \in 2..Len(toks) : is_int(toks[p])
    THEN LET r == read_value(toks, 2, stales[1]) IN
         IF r.err # ""
         THEN Fatal(r.err)
         ELSE Parsed(TaggedNop(V(r.value, r.recur)))
    ELSE Parsed(Nop)

\* Parser::parse_nop
parse_nop(toks, stales) ==
    IF is_int(toks[Len(toks)])
    THEN LET r == read_value(toks, 2, stales[1]) IN
         IF r.err # ""
         THEN Fatal(r.err)
         ELSE Parsed(TaggedNop(V(r.value, r.recur)))
    ELSE Parsed(Nop)

\* Parser::parse, on the tokens of the line
parse(toks, stales) ==
    IF toks = <<>> \/ is_comment(toks[1])
    THEN NoCommand
    ELSE IF equal_to(toks[1], <<"N", "O", "P">>)
    THEN parse_nop(toks, stales)
    ELSE IF \E k \in DOMAIN Opcodes : equal_to(toks[1], Opcodes[k].lexeme)
    THEN LET k == CHOOSE k \in DOMAIN Opcodes :
                      equal_to(toks[1], Opcodes[k].lexeme)
         IN  parse_shape(toks, Opcodes[k], stales)
    ELSE Fatal(UnknownInstruction)

-----------------------------------------------------------------------------
(* main: the lines of test.asm are read and parsed one by one *)

\* the lines of the listings of several lines
ListingLines ==
    {\* `NOP`
     <<"N", "O", "P">>,
     \* `NOP 7`
     <<"N", "O", "P", " ", "7">>,
     \* `OUT 1`
     <<"O", "U", "T", " ", "1">>,
     \* `JMP 0`
     <<"J", "M", "P", " ", "0">>,
     \* `# OUT 1`
     <<"#", " ", "O", "U", "T", " ", "1">>,
     \* `  `
     <<" ", " ">>}

\* the lines parsed on their own
TextLines ==
    ListingLines \cup
    {\* `NOP ** 7`
     <<"N", "O", "P", " ", "*", "*", " ", "7">>,
     \* `NOP 7 x`
     <<"N", "O", "P", " ", "7", " ", "x">>,
     \* `OUT`
     <<"O", "U", "T">>,
     \* `OUT ***1`
     <<"O", "U", "T", " ", "*", "*", "*", "1">>,
     \* `OUT * * 1`
     <<"O", "U", "T", " ", "*", " ", "*", " ", "1">>,
     \* `OUT 12345678901`
     <<"O", "U", "T", " ", "1", "2", "3", "4", "5", "6", "7", "8", "9", "0", "1">>,
     \* `OUT 4294967295`
     <<"O", "U", "T", " ", "4", "2", "9", "4", "9", "6", "7", "2", "9", "5">>,
     \* `SET -1 0`
     <<"S", "E", "T", " ", "-", "1", " ", "0">>,
     \* `OUT -*-1`
     <<"O", "U", "T", " ", "-", "*", "-", "1">>,
     \* `OUT 4294967296`
     <<"O", "U", "T", " ", "4", "2", "9", "4", "9", "6", "7", "2", "9", "6">>,
     \* `SET 5 0`
     <<"S", "E", "T", " ", "5", " ", "0">>,
     \* `SET 5`
     <<"S", "E", "T", " ", "5">>,
     \* `ADD 5 *3 r`
     <<"A", "D", "D", " ", "5", " ", "*", "3", " ", "r">>,
     \* `ADD 5 *3 r 2`
     <<"A", "D", "D", " ", "5", " ", "*", "3", " ", "r", " ", "2">>,
     \* `ADD *0 *1 2`
     <<"A", "D", "D", " ", "*", "0", " ", "*", "1", " ", "2">>,
     \* `JIF 1 2`
     <<"J", "I", "F", " ", "1", " ", "2">>,
     \* `IN 0`
     <<"I", "N", " ", "0">>,
     \* `ROL 1 2 0`
     <<"R", "O", "L", " ", "1", " ", "2", " ", "0">>,
     \* `nop`
     <<"n", "o", "p">>,
     \* `#OUT 1`
     <<"#", "O", "U", "T", " ", "1">>,
     \* `SET 12345678901`
     <<"S", "E", "T", " ", "1", "2", "3", "4", "5", "6", "7", "8", "9", "0", "1">>}

\* every line of at most MaxLineLen characters over a letter, a digit, the
\* two signs and a blank
ShortLines == UNION {[1..n -> {"A", "1", "*", "#", " "}] : n \in 0..MaxLineLen}

\* the buffer fgets fills for a line that ends with a line feed
WithLineFeed(line) == line \o <<"\n">>

\* the files read: one line, its line feed there or missing at the end of
\* the file, or up to MaxLines lines with their line feeds
Sources ==
    {<<WithLineFeed(l)>> : l \in ShortLines \cup TextLines}
    \cup {<<l>> : l \in (ShortLines \cup TextLines) \ {<<>>}}
    \cup UNION {{[k \in 1..n |-> WithLineFeed(f[k])] :
                    f \in [1..n -> ListingLines]} : n \in 0..MaxLines}

\* main before the first fgets: `Parser parser; Program program;`
LoadInitOf(files) ==
    /\ source \in files
    /\ tokens = <<>>
    /\ commands = <<>>
    /\ memory = EmptyPool
    /\ current = 0
    /\ timer = 0
    /\ output = <<>>
    /\ status = "LOADING"
    /\ error = ""
    /\ pc = "fetch"
    /\ comm = -1
    /\ resolved = <<>>
    /\ friendly = FRIENDLY_MODE

LoadInit == LoadInitOf(Sources)

\* one iteration of the loop of main: fgets, parser.parse, program.append
ParseLine ==
    /\ status = "LOADING"
    /\ source # <<>>
    /\ \E stales \in [1..3 -> Stale] :
          LET toks == tokenize(Head(source))
              r == parse(toks, stales)
          IN  /\ tokens' = toks
              /\ source' = Tail(source)
              /\ CASE r.kind = "none" ->
                        UNCHANGED <<commands, status, error>>
                   [] r.kind = "error" ->
                        /\ status' = "ABORTED"
                        /\ error' = r.error
                        /\ UNCHANGED commands
                   [] r.kind = "command" ->
                        /\ commands' = Append(commands, r.command)
                        /\ UNCHANGED <<status, error>>
    /\ UNCHANGED <<memory, current, timer, output, pc, comm, resolved,
                   friendly>>

\* fgets finds the end of the file: main goes on to program.run()
EndOfFile ==
    /\ status = "LOADING"
    /\ source = <<>>
    /\ status' = "RUNNING"
    /\ UNCHANGED <<build, commands, memory, current, timer, output, error,
                   pc, comm, resolved>>

LoadNext ==
    \/ ParseLine
    \/ EndOfFile

LoadSpec == LoadInit /\ [][LoadNext]_vars

\* the lines of the listings that are loaded and then run: one line for
\* every instruction of the run, and three lines that do not load
RunLines ==
    { \* `MEM *0`
     <<"M", "E", "M", " ", "*", "0">>,
     \* `NOP`
     <<"N", "O", "P">>,
     \* `NOP 0`
     <<"N", "O", "P", " ", "0">>,
     \* `OUT 1`
     <<"O", "U", "T", " ", "1">>,
     \* `SET 5 0`
     <<"S", "E", "T", " ", "5", " ", "0">>,
     \* `ADD 1 1 0`
     <<"A", "D", "D", " ", "1", " ", "1", " ", "0">>,
     \* `DIV 1 1 0`
     <<"D", "I", "V", " ", "1", " ", "1", " ", "0">>,
     \* `MOD 1 1 0`
     <<"M", "O", "D", " ", "1", " ", "1", " ", "0">>,
     \* `JMP 2`
     <<"J", "M", "P", " ", "2">>,
     \* `JMOV 1`
     <<"J", "M", "O", "V", " ", "1">>,
     \* `JIF 1 2`
     <<"J", "I", "F", " ", "1", " ", "2">>,
     \* `JIFM 1 1`
     <<"J", "I", "F", "M", " ", "1", " ", "1">>,
     \* `ROL *0 1 0`
     <<"R", "O", "L", " ", "*", "0", " ", "1", " ", "0">>,
     \* `ROR *0 1 0`
     <<"R", "O", "R", " ", "*", "0", " ", "1", " ", "0">>,
     \* `nop`
     <<"n", "o", "p">>,
     \* `OUT`
     <<"O", "U", "T">>,
     \* `OUT 12345678901`
     <<"O", "U", "T", " ", "1", "2", "3", "4", "5", "6", "7", "8", "9", "0", "1">>}

\* the files that are loaded and then run: up to MaxRunLines lines, the last
\* one with its line feed or without
RunSources ==
    UNION {{[k \in 1..n |-> IF k < n \/ lf THEN WithLineFeed(f[k]) ELSE f[k]] :
               f \in [1..n -> RunLines], lf \in BOOLEAN} : n \in 1..MaxRunLines}

\* main, from `Parser parser; Program program;` to the end of program.run()
LoadRunInit == LoadInitOf(RunSources)

LoadRunSpec == LoadRunInit /\ [][LoadNext \/ Next]_vars

-----------------------------------------------------------------------------
(* The operands of a command, read off its argument record, and what       *)
(* resolving a Value means, stated on the pool as a function.             *)

\* the value operands every execution of a command resolves, in the order
\* of its argument record (JIF and JIFM resolve value2 only when the
\* condition is not 0)
SourceOperands(c) ==
    CASE c.op \in {"MEM", "OUT", "SET", "JMP", "JMOV"} -> <<c.value>>
      [] c.op \in {"ADD", "DIV", "MOD", "ROL", "ROR"} -> <<c.value1, c.value2>>
      [] c.op \in {"JIF", "JIFM"} -> <<c.value1>>
      [] OTHER -> <<>>

\* the command writes memory[GET(index)]
HasIndex(c) == c.op \in {"TNOP", "SET", "ADD", "DIV", "MOD", "ROL", "ROR"}

\* every operand of a command: the value operands, then the index
Operands(c) == SourceOperands(c) \o (IF HasIndex(c) THEN <<c.index>> ELSE <<>>)

\* a after d nested loads, mem[...mem[a]...]; an index outside the pool is
\* kept as it is, so the result is outside the pool as soon as one load was
RECURSIVE Nest(_, _, _)
Nest(pool, a, d) ==
    IF d = 0
    THEN a
    ELSE IF d = 1
    THEN (IF a \in DOMAIN pool.mem THEN pool.mem[a] ELSE a)
    ELSE LET h == d \div 2
             m == Nest(pool, a, h)
         IN  IF m \in DOMAIN pool.mem THEN Nest(pool, m, d - h) ELSE m

\* every load of the chain of v is made inside the pool
ChainInBounds(pool, v) ==
    v.recur = 0 \/ Nest(pool, v.value, v.recur - 1) \in DOMAIN pool.mem

\* the depth of v passes the check of Value::get
DepthAccepted(v) == v.recur <= MaxReferenceRecursive

\* some access the command makes on this pool is outside it: a load of an
\* operand's chain, or the destination cell
AccessOutOfBounds(c, pool) ==
    \/ \E k \in DOMAIN Operands(c) :
          DepthAccepted(Operands(c)[k]) /\ ~ChainInBounds(pool, Operands(c)[k])
    \/ /\ HasIndex(c)
       /\ DepthAccepted(c.index)
       /\ Nest(pool, c.index.value, c.index.recur) \notin DOMAIN pool.mem

\* DIV or MOD whose operands resolve and whose divisor is 0
DividesByZero(c, pool) ==
    /\ c.op \in {"DIV", "MOD"}
    /\ \A k \in 1..2 : LET v == Operands(c)[k]
                       IN  DepthAccepted(v) /\ ChainInBounds(pool, v)
    /\ Nest(pool, c.value2.value, c.value2.recur) = 0

\* the step executes the fetched instruction
ExecStep == status = "RUNNING" /\ pc = "exec"

-----------------------------------------------------------------------------
(* C1: an instruction that makes a memory access at an index that is       *)
(* negative or >= the pool size never completes: the run ends there, with *)
(* the out-of-bounds error whenever that access is the only fault of the  *)
(* instruction, no cell is written, and nothing is output once the run    *)
(* has ended.                                                             *)
C1_OutOfBoundsAccessAborts ==
    [][ /\ (ExecStep /\ AccessOutOfBounds(Command, memory)) =>
              /\ status' \in {"ABORTED", "KILLED"}
              /\ memory' = memory
              /\ output' = output
              /\ ((\A k \in DOMAIN Operands(Command) :
                       DepthAccepted(Operands(Command)[k]))
                  /\ ~DividesByZero(Command, memory))
                 => (status' = "ABORTED" /\ error' = MemoryIndexError)
        /\ status # "RUNNING" => output' = output
      ]_vars

\* a load at a negative index, read from a cell of a non-empty pool, has
\* aborted the run
C1_Witness ==
    /\ status = "ABORTED"
    /\ error = MemoryIndexError
    /\ memory.size > 0
    /\ \E k \in DOMAIN resolved :
          /\ resolved[k].err = MemoryIndexError
          /\ resolved[k].loads >= 1
          /\ resolved[k].result < 0

(* C2: resolving a Value (base, d) with d <= 256 whose chain stays in      *)
(* bounds makes exactly d loads and yields base after d nested loads; d   *)
(* >= 257 is rejected with References overflow before any load; an        *)
(* instruction that only resolves operands leaves memory as it was.       *)
C2_GetMakesExactlyDepthLoads ==
    [][ ExecStep =>
          /\ Len(resolved') = Len(Operands(Command))
          /\ \A k \in DOMAIN Operands(Command) :
                LET v == Operands(Command)[k]
                    r == resolved'[k]
                IN  /\ (DepthAccepted(v) /\ ChainInBounds(memory, v)) =>
                          /\ r.err = ""
                          /\ r.loads = v.recur
                          /\ r.result = Nest(memory, v.value, v.recur)
                    /\ ~DepthAccepted(v) =>
                          /\ r.err = ReferencesOverflow
                          /\ r.loads = 0
                          /\ status' # "RUNNING"
          /\ Command.op \in {"OUT", "JMP", "JMOV"} => memory' = memory
      ]_vars

\* an OUT whose operand has depth 256 made 256 loads and printed the result
C2_Witness ==
    /\ status = "RUNNING"
    /\ pc = "fetch"
    /\ comm >= 0
    /\ Command.op = "OUT"
    /\ Command.value.recur = MaxReferenceRecursive
    /\ Len(resolved) = 1
    /\ resolved[1].err = ""
    /\ resolved[1].loads = MaxReferenceRecursive
    /\ output = <<resolved[1].result>>

(* C3: the program MEM 3 / SET 1 0 / SET 2 1 / ADD *0 *1 2 / OUT 2 never  *)
(* fails, leaves 3 in cell 2, and its only output is the literal 2 that   *)
(* OUT was given, printed before it halts.                                *)
C3_AddOutEmitsLiteral ==
    commands = ProgAddOut =>
        /\ status \in {"RUNNING", "HALTED"}
        /\ output \in {<<>>, <<2>>}
        /\ status = "HALTED" => (output = <<2>> /\ memory.mem[2] = 3)

\* C3 as stated: the program halts having printed 3
C3_Original ==
    (commands = ProgAddOut /\ status = "HALTED") => output = <<3>>

\* the program has run to its end
C3_Witness == commands = ProgAddOut /\ status = "HALTED"

(* C4: the program SET 5 0 / OUT 0 with no MEM before it aborts on the    *)
(* SET with the out-of-bounds error: the pool is empty, nothing is        *)
(* printed and the OUT is never reached.                                  *)
C4_SetWithoutMemAborts ==
    commands = ProgSetOut =>
        /\ output = <<>>
        /\ comm <= 0
        /\ status \in {"RUNNING", "ABORTED"}
        /\ status = "ABORTED" => error = MemoryIndexError

\* C4 as stated: the run ends in a normal halt having printed 5
C4_Original ==
    (commands = ProgSetOut /\ status # "RUNNING") =>
        (status = "HALTED" /\ output = <<5>>)

\* the SET at index 0 has aborted the run
C4_Witness ==
    /\ commands = ProgSetOut
    /\ status = "ABORTED"
    /\ comm = 0
    /\ error = MemoryIndexError

\* the instruction being executed is a JMOV whose operand resolves to n
JmovBy(n) ==
    /\ ExecStep
    /\ Command.op = "JMOV"
    /\ DepthAccepted(Command.value)
    /\ ChainInBounds(memory, Command.value)
    /\ Nest(memory, Command.value.value, Command.value.recur) = n

\* the command fetched is the one under the cursor
FetchesAtCursor == (pc = "fetch" /\ pc' = "exec") => comm' = current

(* C5: a JMOV by +2 at index i leaves the cursor at i+3, and the command   *)
(* executed next is the one under the cursor: commands i+1 and i+2 are    *)
(* skipped.                                                               *)
C5_JmovBy2SkipsTwo ==
    [][ /\ JmovBy(2) => (status' = "RUNNING" /\ current' = comm + 3)
        /\ FetchesAtCursor
      ]_vars

\* C5 as stated: the command executed after a JMOV by +2 at index i is i+2
C5_Original ==
    [][ /\ JmovBy(2) => (status' = "RUNNING" /\ current' = comm + 2)
        /\ FetchesAtCursor
      ]_vars

\* a JMOV by +2 has run and command i+3, which exists, is fetched next
C5_Witness ==
    /\ status = "RUNNING"
    /\ pc = "fetch"
    /\ comm >= 0
    /\ Command.op = "JMOV"
    /\ resolved = <<[err |-> "", result |-> 2, loads |-> 0]>>
    /\ current = comm + 3
    /\ current < Len(commands)

\* the instruction being executed is a tagged NOP that completes
TaggedNopCompletes ==
    /\ ExecStep
    /\ Command.op = "TNOP"
    /\ status' = "RUNNING"
    /\ Nest(memory, Command.index.value, Command.index.recur)
           \in DOMAIN memory'.mem

(* C6: a tagged NOP at index i stores i+1 in memory[GET(idx)]: the cursor  *)
(* it records was already advanced past it when it was fetched.           *)
C6_TaggedNopStoresNextIndex ==
    [][ TaggedNopCompletes =>
          memory'.mem[Nest(memory, Command.index.value, Command.index.recur)]
              = comm + 1
      ]_vars

\* C6 as stated: the tagged NOP stores its own index i
C6_Original ==
    [][ TaggedNopCompletes =>
          memory'.mem[Nest(memory, Command.index.value, Command.index.recur)]
              = comm
      ]_vars

\* a tagged NOP at an index >= 2 has stored the next index in cell 0
C6_Witness ==
    /\ status = "RUNNING"
    /\ pc = "fetch"
    /\ comm >= 2
    /\ Command = TaggedNop(V(0, 0))
    /\ memory.size = 1
    /\ memory.mem[0] = comm + 1

C9_ElapsedCountsOuts == timer = Len(output)

\* C10 as stated: a DIV or MOD by zero aborts with a diagnostic and writes
\* no cell
C10_DivisionByZeroIsFatal ==
    [][ (ExecStep /\ DividesByZero(Command, memory)) =>
          /\ status' = "ABORTED"
          /\ error' # ""
          /\ memory' = memory
      ]_vars

\* the instruction being executed belongs to one of the MEM 10 programs
ReadsAfterMem10(prog, op) ==
    ExecStep /\ commands = prog /\ Command.op = op

\* the MEM of the program can leave x in cell 9
CanFill(x) == ENABLED (ExecMem /\ memory'.mem[9] = x)

(* C11: after MEM 10 the cells are 0..9.  In the default build two runs   *)
(* can leave different values in a cell, in the friendly build every cell *)
(* is 0; a read of cell 9 with no SET in between prints what the cell     *)
(* holds, and a read of index 10 aborts with the out-of-bounds error in   *)
(* either build and prints nothing.                                       *)
C11_ReadAfterMem10 ==
    /\ [](ReadsAfterMem10(ProgMemRead9, "MEM") =>
             IF friendly
             THEN CanFill(0) /\ ~CanFill(-1)
             ELSE CanFill(0) /\ CanFill(-1))
    /\ [][
          /\ (ReadsAfterMem10(ProgMemRead9, "MEM")
              \/ ReadsAfterMem10(ProgMemRead10, "MEM")) =>
                /\ status' = "RUNNING"
                /\ DOMAIN memory'.mem = 0..9
                /\ (friendly => \A i \in 0..9 : memory'.mem[i] = 0)
          /\ ReadsAfterMem10(ProgMemRead9, "OUT") =>
                /\ status' = "RUNNING"
                /\ output' = <<memory.mem[9]>>
          /\ ReadsAfterMem10(ProgMemRead10, "OUT") =>
                /\ status' = "ABORTED"
                /\ error' = MemoryIndexError
                /\ output' = <<>>
       ]_vars

\* C11 as stated: the read of index 10 after MEM 10 yields a value, which is
\* 0 in the friendly build
C11_Original ==
    (commands = ProgMemRead10 /\ status # "RUNNING") =>
        /\ status = "HALTED"
        /\ Len(output) = 1
        /\ friendly => output = <<0>>

\* a run of the default build has read cell 9 after MEM 10 and printed a
\* value other than the 0 that a friendly build prints
C11_Witness ==
    /\ commands = ProgMemRead9
    /\ ~friendly
    /\ status = "HALTED"
    /\ Len(output) = 1
    /\ output[1] # 0

\* the instruction being executed is a MEM whose operand resolves
MemResolves ==
    /\ ExecStep
    /\ Command.op = "MEM"
    /\ DepthAccepted(Command.value)
    /\ ChainInBounds(memory, Command.value)

(* C12: the pool always has between 0 and 10,000,000 cells, addressed      *)
(* 0..size-1; a MEM whose operand resolves to a negative value or to more *)
(* than 10,000,000 aborts with Memory limit exceeded and leaves the pool  *)
(* as it was, and a MEM n within the limit leaves exactly the cells       *)
(* 0..n-1.                                                                *)
C12_PoolSizeWithinLimit ==
    /\ [](/\ 0 <= memory.size
          /\ memory.size <= MaxMemorySize
          /\ DOMAIN memory.mem = 0..(memory.size - 1))
    /\ [][ MemResolves =>
             LET n == Nest(memory, Command.value.value, Command.value.recur)
             IN  IF n < 0 \/ n > MaxMemorySize
                 THEN /\ status' = "ABORTED"
                      /\ error' = MemoryLimitExceeded
                      /\ memory' = memory
                 ELSE /\ status' = "RUNNING"
                      /\ memory'.size = n
                      /\ DOMAIN memory'.mem = 0..(n - 1)
       ]_vars

\* a MEM whose operand was read from a cell holding a negative value has
\* aborted, the pool it ran on still in place
C12_Witness ==
    /\ status = "ABORTED"
    /\ error = MemoryLimitExceeded
    /\ comm >= 0
    /\ Command.op = "MEM"
    /\ Len(resolved) = 1
    /\ resolved[1].err = ""
    /\ resolved[1].result < 0
    /\ memory.size > 0

-----------------------------------------------------------------------------
(* The runs of a line, read off the line itself *)

\* a run starts at i: a character of a class, the character before it of
\* another class
RunStarts(line) ==
    {i \in 1..Len(line) :
        /\ TokenType(line[i]) # "UNKNOWN"
        /\ i = 1 \/ TokenType(line[i - 1]) # TokenType(line[i])}

\* the last character of the run that starts at i
RunEnd(line, i) ==
    CHOOSE j \in i..Len(line) :
        /\ \A k \in i..j : TokenType(line[k]) = TokenType(line[i])
        /\ j = Len(line) \/ TokenType(line[j + 1]) # TokenType(line[i])

\* the maximal runs of characters of one class, left to right
MaximalRuns(line) ==
    [n \in 1..Cardinality(RunStarts(line)) |->
        LET i == CHOOSE s \in RunStarts(line) :
                    Cardinality({r \in RunStarts(line) : r < s}) = n - 1
        IN  SubSeq(line, i, RunEnd(line, i))]

(* C13: the tokens of every line read are exactly its maximal runs of
   characters of one class (letters, digits, signs), in order, the last run
   included when the line ends right after it. *)
C13_TokensAreMaximalRuns ==
    [][ParseLine => tokens' = MaximalRuns(Head(source))]_vars

-----------------------------------------------------------------------------
(* The operands of a line, read off its tokens *)

\* the Values of the argument record of a command, in the order they are read
ArgsOf(c) ==
    LET fields == SelectSeq(<<"value", "value1", "value2", "index">>,
                            LAMBDA f : f \in DOMAIN c)
    IN  [k \in 1..Len(fields) |-> c[fields[k]]]

\* the integer tokens after the opcode
IntegerTokens(toks) == {p \in 2..Len(toks) : is_int(toks[p])}

\* the k-th integer token after the opcode
IntegerToken(toks, k) ==
    CHOOSE p \in IntegerTokens(toks) :
        Cardinality({q \in IntegerTokens(toks) : q < p}) = k - 1

\* where the k-th operand is read from: right after the opcode, or right
\* after the integer token of the operand before
ReadFrom(toks, k) == IF k = 1 THEN 2 ELSE IntegerToken(toks, k - 1) + 1

\* the characters of the tokens from..to
RECURSIVE Characters(_, _, _)
Characters(toks, from, to) ==
    IF from > to THEN 0 ELSE Len(toks[from]) + Characters(toks, from + 1, to)

\* the decimal numeral of n >= 0
RECURSIVE Numeral(_)
Numeral(n) ==
    LET digit == CHOOSE c \in Digits : DigitValue[c] = n % 10
    IN  IF n < 10 THEN <<digit>> ELSE Append(Numeral(n \div 10), digit)

\* a run of digits without its leading zeros
RECURSIVE StripZeros(_)
StripZeros(t) == IF Len(t) > 1 /\ t[1] = "0" THEN StripZeros(Tail(t)) ELSE t

\* the int n is the number the integer token t writes
Denotes(t, n) == n >= 0 /\ Numeral(n) = StripZeros(t)

(* C14: the k-th operand of every command parsed has for base the number of
   the k-th integer token after the opcode and for depth the number of
   characters of the tokens between the end of the operand before (the
   opcode for the first) and that integer token. *)
C14_OperandsFromIntegerTokens ==
    [][(ParseLine /\ commands' # commands) =>
          LET c == commands'[Len(commands')]
          IN  \A k \in 1..Len(ArgsOf(c)) :
                LET p == IntegerToken(tokens', k)
                IN  /\ Denotes(tokens'[p], ArgsOf(c)[k].value)
                    /\ ArgsOf(c)[k].recur =
                          Characters(tokens', ReadFrom(tokens', k), p - 1)
       ]_vars

-----------------------------------------------------------------------------
(* The operands a line must have *)

\* the first token is an opcode Parser::parse knows
KnownOpcode(toks) ==
    /\ toks # <<>>
    /\ \/ toks[1] = <<"N", "O", "P">>
       \/ \E k \in DOMAIN Opcodes : toks[1] = Opcodes[k].lexeme

\* the number of operands read for the opcode of the line
Required(toks) ==
    IF toks[1] = <<"N", "O", "P">>
    THEN (IF is_int(toks[Len(toks)]) THEN 1 ELSE 0)
    ELSE Arity[Opcodes[CHOOSE k \in DOMAIN Opcodes :
                            toks[1] = Opcodes[k].lexeme].shape]

\* the integer tokens read before the tokens run out are all short enough
\* to be taken
NoneTooLong(toks) ==
    \A p \in IntegerTokens(toks) : Len(toks[p]) <= MaxIntegerLength

(* C15: a line whose opcode needs more operands than there are integer
   tokens after it, so that read_value comes to the end of the tokens
   looking for one, aborts the loading with "Invalid value" and appends no
   command. *)
C15_MissingOperandIsFatal ==
    [][(/\ ParseLine
        /\ KnownOpcode(tokens')
        /\ Cardinality(IntegerTokens(tokens')) < Required(tokens')
        /\ NoneTooLong(tokens')) =>
          /\ status' = "ABORTED"
          /\ error' = InvalidValue
          /\ commands' = commands
       ]_vars

C15_Witness ==
    /\ status = "ABORTED"
    /\ error = InvalidValue
    /\ commands = <<>>
    /\ KnownOpcode(tokens)
    /\ tokens[1] = <<"S", "E", "T">>
    /\ Cardinality(IntegerTokens(tokens)) = 1

-----------------------------------------------------------------------------
(* The lines that produce no command *)

\* parser.parse has returned and its command is not valid: nothing is
\* appended and the loading goes on
Skipped == commands' = commands /\ status' = "LOADING"

(* C16: a line read produces no command exactly when it has no token or its
   first token starts with `#`; it is skipped, and any other line that
   loads puts its command at the end of the list, at the index that is the
   number of commands loaded before it. *)
C16_CommentAndBlankLinesAreSkipped ==
    [][ParseLine =>
          /\ Skipped <=> (tokens' = <<>> \/ tokens'[1][1] = "#")
          /\ ~Skipped /\ status' = "LOADING" =>
                /\ Len(commands') = Len(commands) + 1
                /\ SubSeq(commands', 1, Len(commands)) = commands
       ]_vars

C16_Witness ==
    /\ status = "LOADING"
    /\ Len(source) = 1
    /\ tokens # <<>>
    /\ tokens[1][1] = "#"
    /\ commands = <<Out(V(1, 0))>>

-----------------------------------------------------------------------------
(* NOP lines *)

\* a line whose first token is NOP has been parsed
ParsesNop == ParseLine /\ tokens' # <<>> /\ tokens'[1] = <<"N", "O", "P">>

\* the last token of the line is an integer literal
EndsWithInteger(toks) == toks[Len(toks)][1] \in Digits

(* C17: a NOP line parses as a tagged NOP exactly when the last token of the
   line is an integer literal and as a plain NOP otherwise; the operand of a
   tagged NOP is read from the token right after the opcode: its depth is
   the number of characters of the tokens between the opcode and the first
   integer token. *)
C17_NopTaggedIffLastTokenInteger ==
    [][ParsesNop =>
          LET c == commands'[Len(commands')]
              p == IntegerToken(tokens', 1)
          IN  IF EndsWithInteger(tokens')
              THEN \/ /\ Len(tokens'[p]) <= MaxIntegerLength
                      /\ commands' = Append(commands, c)
                      /\ c.op = "TNOP"
                      /\ DOMAIN c = {"op", "index"}
                      /\ c.index.recur = Characters(tokens', 2, p - 1)
                   \/ /\ Len(tokens'[p]) > MaxIntegerLength
                      /\ status' = "ABORTED"
                      /\ error' = IntegerTooLong
              ELSE commands' = Append(commands, Nop)
       ]_vars

C17_Witness ==
    /\ status = "LOADING"
    /\ tokens = <<<<"N", "O", "P">>, <<"*", "*">>, <<"7">>>>
    /\ Len(commands) = 1
    /\ commands[1].op = "TNOP"
    /\ commands[1].index.recur = 2

-----------------------------------------------------------------------------
(* Writes to memory *)

\* what v resolves to on the pool as it is before the instruction
Before(v) == Nest(memory, v.value, v.recur)

\* the instruction being executed writes a cell: its operands and its index
\* resolve, the destination is in the pool, and it does not divide by zero
WriteCompletes ==
    /\ ExecStep
    /\ HasIndex(Command)
    /\ \A k \in DOMAIN Operands(Command) :
          /\ DepthAccepted(Operands(Command)[k])
          /\ ChainInBounds(memory, Operands(Command)[k])
    /\ Before(Command.index) \in DOMAIN memory.mem
    /\ ~DividesByZero(Command, memory)

\* the int the instruction computes from its operands as they resolve
\* before it
Written(c) ==
    CASE c.op = "SET" -> Before(c.value)
      [] c.op = "ADD" -> Before(c.value1) + Before(c.value2)
      [] c.op = "DIV" -> CDiv(Before(c.value1), Before(c.value2))
      [] c.op = "MOD" -> CMod(Before(c.value1), Before(c.value2))
      [] c.op = "TNOP" -> current
      [] c.op = "ROL" -> RolLoop(Before(c.value1), 0,
                                 BitAnd(Before(c.value2), INT_HIGHBIT))
      [] c.op = "ROR" -> RorLoop(Before(c.value1), 0,
                                 BitAnd(Before(c.value2), INT_HIGHBIT))

(* C18: an instruction that writes memory resolves its operands and its
   destination index on the memory as it is before the instruction and then
   writes that one cell, every other cell left as it was: with memory[0] = a,
   `ADD *0 *0 0` leaves memory[0] = 2a and `SET *0 *0` writes a into
   memory[a]. *)
C18_OperandsResolvedBeforeWrite ==
    [][
        /\ WriteCompletes =>
              /\ status' = "RUNNING"
              /\ memory' = [memory EXCEPT
                              !.mem[Before(Command.index)] = Written(Command)]
        /\ (WriteCompletes /\ Command = Add(V(0, 1), V(0, 1), V(0, 0))) =>
              memory'.mem[0] = 2 * memory.mem[0]
        /\ (WriteCompletes /\ Command = Set(V(0, 1), V(0, 1))) =>
              memory'.mem[memory.mem[0]] = memory.mem[0]
      ]_vars

\* `ADD *0 *0 0` has run on a cell 0 that held -1: the cell holds -2
C18_Witness ==
    /\ status = "RUNNING"
    /\ pc = "fetch"
    /\ comm >= 0
    /\ Command = Add(V(0, 1), V(0, 1), V(0, 0))
    /\ memory.size > 0
    /\ memory.mem[0] = -2

-----------------------------------------------------------------------------
(* Rotations, on the pattern of 32 bits itself *)

\* bit i of the two's complement pattern of the int v
Bits(v) ==
    [i \in 0..(IntBits - 1) |->
        IF i = IntBits - 1
        THEN (IF v < 0 THEN 1 ELSE 0)
        ELSE (v \div Pow2(i)) % 2]

\* the weight of bits 0..i of a pattern
RECURSIVE Weight(_, _)
Weight(b, i) == IF i < 0 THEN 0 ELSE b[i] * Pow2(i) + Weight(b, i - 1)

\* the int of a pattern
FromBits(b) ==
    IF b[IntBits - 1] = 1
    THEN (Weight(b, IntBits - 2) - Pow2(IntBits - 2)) - Pow2(IntBits - 2)
    ELSE Weight(b, IntBits - 2)

\* v rotated left by k positions: bit i goes to position i + k, around the end
RotatedLeft(v, k) ==
    FromBits([i \in 0..(IntBits - 1) |-> Bits(v)[(i - k) % IntBits]])

\* v rotated right by k positions: bit i goes to position i - k
RotatedRight(v, k) ==
    FromBits([i \in 0..(IntBits - 1) |-> Bits(v)[(i + k) % IntBits]])

\* the instruction being executed is a ROL or ROR that completes
RotateCompletes(op) == WriteCompletes /\ Command.op = op

(* C19: ROL stores in memory[GET(idx)] the pattern of 32 bits of GET(v1)
   rotated left by GET(v2) & 31 positions, ROR the pattern rotated right,
   whatever the sign of GET(v1) and of what the rotation passes through. *)
C19_RotationsAreTrue ==
    [][
        /\ RotateCompletes("ROL") =>
              memory'.mem[Before(Command.index)] =
                  RotatedLeft(Before(Command.value1),
                              Before(Command.value2) % IntBits)
        /\ RotateCompletes("ROR") =>
              memory'.mem[Before(Command.index)] =
                  RotatedRight(Before(Command.value1),
                               Before(Command.value2) % IntBits)
      ]_vars

-----------------------------------------------------------------------------
(* JMP *)

\* the instruction being executed is a JMP whose operand resolves
JmpResolves ==
    /\ ExecStep
    /\ Command.op = "JMP"
    /\ DepthAccepted(Command.value)
    /\ ChainInBounds(memory, Command.value)

(* C20: a JMP, wherever it stands, leaves the cursor at exactly what its
   operand resolves to, and the command executed next is the one under the
   cursor: command GET(v), before or after the JMP alike. *)
C20_JmpSetsCursor ==
    [][ /\ JmpResolves =>
              /\ status' = "RUNNING"
              /\ pc' = "fetch"
              /\ current' = Before(Command.value)
        /\ (pc = "fetch" /\ pc' = "exec") =>
              /\ 0 <= current /\ current < Len(commands)
              /\ comm' = current
      ]_vars

\* a JMP 1 at index 3 has been executed: the cursor is back on command 1
C20_Witness ==
    /\ status = "RUNNING"
    /\ pc = "fetch"
    /\ comm = 3
    /\ Len(commands) > 3
    /\ Command = Jmp(V(1, 0))
    /\ current = 1

-----------------------------------------------------------------------------
\* a JIF or JIFM is being executed and its condition resolves to 0
JifZero ==
    /\ ExecStep
    /\ Command.op \in {"JIF", "JIFM"}
    /\ DepthAccepted(Command.value1)
    /\ ChainInBounds(memory, Command.value1)
    /\ Nest(memory, Command.value1.value, Command.value1.recur) = 0

\* the loop of Program::run is at its head, right after a JIF or JIFM whose
\* condition resolved to 0
AfterJifZero ==
    /\ status = "RUNNING"
    /\ pc = "fetch"
    /\ comm >= 0
    /\ Command.op \in {"JIF", "JIFM"}
    /\ resolved # <<>>
    /\ resolved[1].err = ""
    /\ resolved[1].result = 0

(* C21: a JIF or JIFM at index i whose first operand resolves to 0 keeps
   the run going with the cursor at i+1 and memory as it was; the command
   executed next is i+1, or the run halts when i is the last command. *)
C21_JifZeroFallsThrough ==
    [][ /\ JifZero =>
              /\ status' = "RUNNING"
              /\ pc' = "fetch"
              /\ current' = comm + 1
              /\ memory' = memory
        /\ AfterJifZero =>
              /\ current = comm + 1
              /\ IF comm + 1 < Len(commands)
                 THEN status' = "RUNNING" /\ pc' = "exec" /\ comm' = comm + 1
                 ELSE status' = "HALTED"
              /\ memory' = memory
      ]_vars

\* MEM 1, NOP, JIF 0 0, NOP: the NOP at index 3 is executed after the JIF
C21_Witness ==
    /\ status = "RUNNING"
    /\ pc = "exec"
    /\ comm = 3
    /\ commands = <<Mem(V(1, 0)), Nop, Jif(V(0, 0), V(0, 0)), Nop>>
    /\ resolved = <<[err |-> "", result |-> 0, loads |-> 0]>>

-----------------------------------------------------------------------------
\* a fatal error has occurred: a diagnostic was printed or the process ended
\* abnormally
FatalErrorOccurred == error # "" \/ status \in {"ABORTED", "KILLED"}

\* this step executes an OUT that emits the value its operand resolves to
EmitsOut ==
    /\ ExecStep
    /\ Command.op = "OUT"
    /\ output' = Append(output, Before(Command.value))

(* C22: abort is terminal. A diagnostic is printed only by the step that
   ends the run; once a fatal error has occurred no command is fetched or
   executed and memory, cursor and output never change again; and the
   output only ever grows by the value of an OUT that is executed while the
   run is going and that does not end it, so what has been output when the
   run is aborted is what the OUTs executed before the error emitted, in
   execution order. *)
C22_AbortIsTerminal ==
    [][ /\ error' # error => (status = "RUNNING" /\ status' = "ABORTED")
        /\ FatalErrorOccurred => UNCHANGED vars
        /\ output' # output => (EmitsOut /\ status' = "RUNNING")
      ]_vars

\* OUT 1 / OUT *0 / OUT 1 was aborted by its second OUT, after it output 1
C22_Witness ==
    /\ status = "ABORTED"
    /\ error = MemoryIndexError
    /\ pc = "exec"
    /\ comm = 1
    /\ commands = <<Out(V(1, 0)), Out(V(0, 1)), Out(V(1, 0))>>
    /\ output = <<1>>

-----------------------------------------------------------------------------
JumpOps == {"JMP", "JMOV", "JIF", "JIFM"}

\* the operand of a jump that holds its target or offset
JumpOperand(c) == IF c.op \in {"JMP", "JMOV"} THEN c.value ELSE c.value2

\* the cursor the jump being executed asks for
JumpTarget ==
    IF Command.op \in {"JMP", "JIF"}
    THEN Before(JumpOperand(Command))
    ELSE current + Before(JumpOperand(Command))

\* a jump is being executed, its operands resolve, it is taken, and the
\* cursor it asks for is negative or not below the number of commands
JumpsOutOfRange ==
    /\ ExecStep
    /\ Command.op \in JumpOps
    /\ Command.op \in {"JIF", "JIFM"} =>
          /\ DepthAccepted(Command.value1)
          /\ ChainInBounds(memory, Command.value1)
          /\ Before(Command.value1) # 0
    /\ DepthAccepted(JumpOperand(Command))
    /\ ChainInBounds(memory, JumpOperand(Command))
    /\ (JumpTarget < 0 \/ JumpTarget >= Len(commands))

(* C23: whenever the run loop fetches a command the cursor is an index of
   the command list, and the "Invalid position" diagnostic is never given;
   a JMP, JMOV, JIF or JIFM that leaves the cursor negative or at or past
   the number of commands completes without a diagnostic, and the run then
   ends in HALTED, without a diagnostic. *)
C23_CursorInRangeAtFetch ==
    [][ /\ (pc = "fetch" /\ pc' = "exec") =>
              /\ 0 <= current /\ current < Len(commands)
              /\ comm' = current
        /\ error' # InvalidPosition
        /\ JumpsOutOfRange =>
              /\ status' = "RUNNING"
              /\ pc' = "fetch"
              /\ current' = JumpTarget
              /\ error' = ""
        /\ (status = "RUNNING" /\ pc = "fetch"
              /\ (current < 0 \/ current >= Len(commands))) =>
              /\ status' = "HALTED"
              /\ error' = ""
      ]_vars

\* MEM 1 / ADD *0 *0 0 / JMOV *0 with -1 in the fresh cell: the second JMOV
\* moved the cursor from 3 by -4 and the run halted
C23_Witness ==
    /\ status = "HALTED"
    /\ error = ""
    /\ commands = <<Mem(V(1, 0)), Add(V(0, 1), V(0, 1), V(0, 0)),
                    Jmov(V(0, 1))>>
    /\ comm = 2
    /\ current = -1

-----------------------------------------------------------------------------
\* every value operand of a command, the target of a conditional jump included
AllOperands(c) ==
    Operands(c) \o (IF c.op \in {"JIF", "JIFM"} THEN <<c.value2>> ELSE <<>>)

\* executed on an empty pool, the command makes a load: an operand it
\* resolves is at least one reference deep (a conditional jump resolves its
\* target only when its condition is not 0)
LoadsOnEmptyPool(c) ==
    \/ \E k \in DOMAIN SourceOperands(c) : SourceOperands(c)[k].recur >= 1
    \/ /\ c.op \in {"JIF", "JIFM"}
       /\ c.value1.recur = 0
       /\ c.value1.value # 0
       /\ c.value2.recur >= 1

\* the instruction being executed finds the pool empty
OnEmptyPool == ExecStep /\ memory.size = 0

\* what an instruction without a destination does when all its operands are
\* literals
LiteralEffect(c) ==
    /\ output' = IF c.op = "OUT" THEN Append(output, c.value.value) ELSE output
    /\ current' = CASE c.op = "JMP" -> c.value.value
                    [] c.op = "JMOV" -> current + c.value.value
                    [] c.op = "JIF" /\ c.value1.value # 0 -> c.value2.value
                    [] c.op = "JIFM" /\ c.value1.value # 0 ->
                           current + c.value2.value
                    [] OTHER -> current

(* C24: the pool is empty when the run starts and its size changes only by
   a MEM that completes. An instruction executed on the empty pool that
   makes a load (an operand at least one reference deep) or writes a
   destination cell never completes: the run ends there, nothing is written
   or output, and the error is the out-of-bounds error whenever the
   instruction has no other fault (an operand deeper than the limit, a
   division by zero). A NOP, OUT, JMP, JMOV, JIF or JIFM whose operands are
   all literals completes on the empty pool with its usual effect. *)
C24_EmptyPoolUntilMem ==
    /\ memory = EmptyPool
    /\ [][ /\ memory'.size # memory.size =>
                 (ExecStep /\ Command.op = "MEM" /\ status' = "RUNNING")
           /\ (OnEmptyPool /\ (LoadsOnEmptyPool(Command) \/ HasIndex(Command)))
                 => /\ status' \in {"ABORTED", "KILLED"}
                    /\ memory' = memory
                    /\ output' = output
                    /\ ((\A k \in DOMAIN AllOperands(Command) :
                            DepthAccepted(AllOperands(Command)[k]))
                        /\ ~DividesByZero(Command, memory))
                          => (status' = "ABORTED" /\ error' = MemoryIndexError)
           /\ (OnEmptyPool
                 /\ Command.op \in {"NOP", "OUT"} \cup JumpOps
                 /\ \A k \in DOMAIN AllOperands(Command) :
                       AllOperands(Command)[k].recur = 0)
                 => /\ status' = "RUNNING"
                    /\ pc' = "fetch"
                    /\ error' = ""
                    /\ memory' = memory
                    /\ LiteralEffect(Command)
         ]_vars

\* NOP 0 / OUT 0 with no MEM: the tagged NOP has aborted the run on its
\* destination cell
C24_Witness ==
    /\ commands = <<TaggedNop(V(0, 0)), Out(V(0, 0))>>
    /\ status = "ABORTED"
    /\ error = MemoryIndexError
    /\ comm = 0
    /\ memory = EmptyPool
    /\ output = <<>>

-----------------------------------------------------------------------------
\* the line does not load: read as its maximal runs, it has an opcode
\* Parser::parse does not know, lacks an operand, or has an integer too long
Offends(line) == parse(MaximalRuns(line), [k \in 1..3 |-> <<>>]).kind = "error"

(* C25: every line is parsed before the first instruction is executed.
   While the file is being read nothing is executed or output; a line that
   does not load (unknown opcode, compared case-sensitively; invalid value;
   integer too long) aborts the run right there, with no instruction
   executed and nothing output, wherever it stands in the file; and the run
   starts only once no line is left. *)
C25_LoadErrorsAbortBeforeRun ==
    [][ /\ status = "LOADING" =>
              /\ comm' = -1
              /\ output' = <<>>
              /\ memory' = EmptyPool
              /\ status' = "RUNNING" => source = <<>>
        /\ (status = "LOADING" /\ source # <<>> /\ Offends(Head(source))) =>
              /\ status' = "ABORTED"
              /\ error' \in {UnknownInstruction, InvalidValue, IntegerTooLong}
        /\ status = "ABORTED" => UNCHANGED vars
      ]_vars

-----------------------------------------------------------------------------
\* the cells of the pool this step changes
CellsChanged ==
    {i \in DOMAIN memory.mem \cap DOMAIN memory'.mem :
        memory'.mem[i] # memory.mem[i]}

(* C26: the frame of one step. Executing an instruction other than MEM
   never changes the size of the pool, and the only cell it can change is
   its destination memory[GET(index)]; NOP, OUT, JMP, JMOV, JIF and JIFM
   change no cell; every instruction other than JMP, JMOV, JIF and JIFM
   fetched at index i leaves the cursor at i + 1; and no step of a run
   changes the list of commands. *)
C26_FrameOfOneStep ==
    [][ /\ commands' = commands
        /\ (ExecStep /\ Command.op # "MEM") =>
              /\ memory'.size = memory.size
              /\ DOMAIN memory'.mem = DOMAIN memory.mem
              /\ CellsChanged # {} =>
                    /\ HasIndex(Command)
                    /\ CellsChanged = {Before(Command.index)}
        /\ (ExecStep /\ Command.op \in {"NOP", "OUT"} \cup JumpOps) =>
              memory' = memory
        /\ (ExecStep /\ Command.op \notin JumpOps) => current' = comm + 1
        /\ ~ExecStep => memory' = memory
      ]_vars

\* MEM 3 / SET 1 0 / SET 2 1 / ADD *0 *1 2 / OUT 2: the ADD at index 3 has
\* written cell 2 and left the cursor at 4
C26_Witness ==
    /\ commands = ProgAddOut
    /\ status = "RUNNING"
    /\ pc = "fetch"
    /\ comm = 3
    /\ current = 4
    /\ memory.mem[0] = 1
    /\ memory.mem[1] = 2
    /\ memory.mem[2] = 3

-----------------------------------------------------------------------------
(* C27: every Value the parser produces has a base that is not negative.
   A `-` belongs to no token and only separates tokens, so that a line
   gives the tokens it would give with a blank for every `-` (`SET -1 0`
   loads as `SET 1 0` does), and the base of every operand of every command
   loaded is 0 or more. *)
C27_ParsedBasesAreNonNegative ==
    [][ParseLine =>
          LET line == Head(source)
              blanked == [i \in DOMAIN line |->
                             IF line[i] = "-" THEN " " ELSE line[i]]
          IN  /\ tokens' = tokenize(blanked)
              /\ Len(commands') > Len(commands) =>
                    \A k \in DOMAIN ArgsOf(commands'[Len(commands')]) :
                        ArgsOf(commands'[Len(commands')])[k].value >= 0
       ]_vars

=============================================================================
